---- MODULE Spec2Model ----
(***************************************************************************)
(* Model of the request scheduler (class RateLimiter) of the front-end,    *)
(* followed by a model of its entity URL navigator (the hook               *)
(* useEntityUrlNavigation).  The two do not interact: each has its own     *)
(* variables and its own specification.                                    *)
(*                                                                         *)
(* The host is a single-threaded event loop: every action below is one     *)
(* task of that loop, run to completion (a public method call, the         *)
(* continuation of an await, or a setTimeout callback).  Wall-clock time   *)
(* is abstracted: a scheduled timeout may elapse at any later moment; the  *)
(* duration it was scheduled with is recorded where it is scheduled.       *)
(*                                                                         *)
(* A request is identified by the rank of its addRequest call (1, 2, ...). *)
(* The operation of request i is assumed to return a promise, as its type  *)
(* () => Promise<T> says; when that promise resolves it yields OpValue(i), *)
(* when it rejects it yields OpError(i).                                   *)
(***************************************************************************)
EXTENDS Integers, Sequences, FiniteSets

VARIABLES
    queue,           \* RateLimiter.queue: the pending items, front first
    isProcessing,    \* RateLimiter.isProcessing
    requestDelay,    \* RateLimiter.requestDelay (ms)
    maxConcurrent,   \* RateLimiter.maxConcurrent
    activeRequests,  \* RateLimiter.activeRequests
    promise,         \* per request: the promise created by addRequest
    op,              \* per request: the caller's operation (item.request)
    loop,            \* the processQueue calls suspended at their await: the
                     \* delay each one waits for
    timers,          \* number of pending setTimeout(() => processQueue())
    submitted,       \* number of addRequest calls made so far
    last             \* the task the event loop ran last: handler h, the
                     \* request r it was about (clearQueue: the number of
                     \* items it rejected), the timeout ms it scheduled,
                     \* the set d of requests whose operation it invoked

VARIABLES
    search,          \* the hook: <<q>>, q the query string the effect last
                     \* ran for (as URLSearchParams reads it), <<>> before
                     \* the component is mounted
    hasAdditional,   \* whether the configuration has onAdditionalAction
    fetches,         \* the getEntityById calls made, in order: the query,
                     \* the argument, and whether the promise has settled
    calls,           \* the callbacks invoked, in order
    escaped,         \* whether an error has left loadSpecificEntity
    navigations,     \* number of runs of the effect so far
    navLast          \* what the last settled fetch settled with

schedVars == <<queue, isProcessing, requestDelay, maxConcurrent,
               activeRequests, promise, op, loop, timers, submitted, last>>

navVars == <<search, hasAdditional, fetches, calls, escaped, navigations,
             navLast>>

vars == <<schedVars, navVars>>

----------------------------------------------------------------------------
(* Bounds of the exploration *)

MaxRequests == 4

MaxNavigations == 3

Requests == 1..MaxRequests

(* Program constants *)

DefaultRequestDelay == 200

DefaultMaxConcurrent == 3

(* Values updateSettings is called with *)

DelayChoices == {0, DefaultRequestDelay}

CeilingChoices == {0, 1, DefaultMaxConcurrent}

(* An optional field of the settings object is a set of at most one value;
   the empty set is `undefined'. *)
Optional(S) == {{}} \cup {{v} : v \in S}

SettingsChoices == [requestDelay : Optional(DelayChoices),
                    maxConcurrent : Optional(CeilingChoices)]

----------------------------------------------------------------------------
(* Values carried by promises *)

OpValue(i) == <<"value", i>>

OpError(i) == <<"error", i>>

CancelError == <<"Request cancelled">>

Unsubmitted == [state |-> "unsubmitted", with |-> <<>>]

Pending == [state |-> "pending", with |-> <<>>]

Resolved(v) == [state |-> "resolved", with |-> v]

Rejected(e) == [state |-> "rejected", with |-> e]

(* item.resolve / item.reject: a promise settles at most once, later calls
   of its resolve or reject functions are ignored. *)
Settle(p, i, outcome) ==
    IF p[i] = Pending THEN [p EXCEPT ![i] = outcome] ELSE p

(* queue.forEach(item => item.reject(new Error('Request cancelled'))) *)
RECURSIVE RejectAll(_, _)
RejectAll(p, q) ==
    IF q = <<>> THEN p
    ELSE RejectAll(Settle(p, Head(q), Rejected(CancelError)), Tail(q))

Range(q) == {q[k] : k \in 1..Len(q)}

----------------------------------------------------------------------------
Init ==
    /\ queue = <<>>
    /\ isProcessing = FALSE
    /\ requestDelay = DefaultRequestDelay
    /\ maxConcurrent = DefaultMaxConcurrent
    /\ activeRequests = 0
    /\ promise = [i \in Requests |-> Unsubmitted]
    /\ op = [i \in Requests |-> "idle"]
    /\ loop = <<>>
    /\ timers = 0
    /\ submitted = 0
    /\ last = [h |-> "init", r |-> 0, ms |-> 0, d |-> {}]
    /\ search = <<>>
    /\ hasAdditional = FALSE
    /\ fetches = <<>>
    /\ calls = <<>>
    /\ escaped = FALSE
    /\ navigations = 0
    /\ navLast = [k |-> 0,
                  response |-> [settled |-> "none", success |-> FALSE,
                                hasData |-> FALSE],
                  threw |-> FALSE]

(* Variant: the loop admits a request when the count equals the ceiling. *)
CanDispatchOffByOne(q, a) == Len(q) > 0 /\ a <= maxConcurrent

(* Variant: the loop only looks at the queue, the ceiling being checked on
   entry alone. *)
CanDispatchAnyLoad(q, a) == Len(q) > 0

(* Variant: the loop compares with the initial ceiling, not the current one. *)
CanDispatchDefaultCeiling(q, a) == Len(q) > 0 /\ a < DefaultMaxConcurrent

(* The condition of the while loop of processQueue. *)
CanDispatch(q, a) == Len(q) > 0 /\ a < maxConcurrent

(* Variant: processQueue without its re-entrancy guard. *)
SkipsIgnoringFlag(q, a) == Len(q) = 0 \/ a >= maxConcurrent

(* The early return of processQueue. *)
Skips(q, a) == isProcessing \/ Len(q) = 0 \/ a >= maxConcurrent

(* Variant: queue.pop() in place of queue.shift(). *)
Pop(q) == [item |-> q[Len(q)], rest |-> SubSeq(q, 1, Len(q) - 1)]

(* Variant: the item is read but left in the queue. *)
ShiftKeeping(q) == [item |-> Head(q), rest |-> q]

(* queue.shift(): the item taken and what is left. *)
Shift(q) == [item |-> Head(q), rest |-> Tail(q)]

(* Variant: the increment is missing. *)
AcquireForgotten(a) == a

(* activeRequests++ *)
Acquire(a) == a + 1

(* Variant: the loop never waits. *)
DelaysNever(q) == FALSE

(* Variant: the loop waits after every dispatch. *)
DelaysAfterEveryDispatch(q) == TRUE

(* Whether the loop suspends after a dispatch. *)
DelaysAfterDispatch(q) == Len(q) > 0

(* The while loop of processQueue from its condition, with q and a the
   values of queue and activeRequests at that point and others the other
   calls of processQueue that are suspended, up to the next await or to the
   end of the function.  A dispatch that leaves the queue non-empty
   suspends; one that empties it makes the condition false: no synchronous
   run dispatches twice.  The result gives the fields as the run leaves them
   and the set of items handed to executeRequest. *)
RunLoop(q, a, others) ==
    IF CanDispatch(q, a)
    THEN LET s == Shift(q) IN
         [queue |-> s.rest,
          activeRequests |-> Acquire(a),
          started |-> {s.item},
          isProcessing |-> DelaysAfterDispatch(s.rest),
          loop |-> IF DelaysAfterDispatch(s.rest)
                   THEN Append(others, requestDelay)
                   ELSE others]
    ELSE [queue |-> q,
          activeRequests |-> a,
          started |-> {},
          isProcessing |-> FALSE,
          loop |-> others]

(* A call of processQueue. *)
ProcessQueue(q, a) ==
    IF Skips(q, a)
    THEN [queue |-> q,
          activeRequests |-> a,
          started |-> {},
          isProcessing |-> isProcessing,
          loop |-> loop]
    ELSE RunLoop(q, a, loop)

(* executeRequest up to its await: the operation of each started item is
   invoked. *)
Launch(o, started) ==
    [i \in Requests |-> IF i \in started THEN "running" ELSE o[i]]

(* The fields as a run of processQueue leaves them. *)
Becomes(run) ==
    /\ queue' = run.queue
    /\ activeRequests' = run.activeRequests
    /\ isProcessing' = run.isProcessing
    /\ loop' = run.loop
    /\ op' = Launch(op, run.started)

(* The id the caller gives with its i-th submission: two ids, used in turn,
   so that every other submission repeats an id. *)
IdOf(i) == IF i % 2 = 1 THEN "a" ELSE "b"

(* Variant: a submission whose id is already queued is not queued again. *)
PushUnlessQueued(q, i) ==
    IF \E k \in Range(q) : IdOf(k) = IdOf(i) THEN q ELSE Append(q, i)

(* queue.push(item) *)
Push(q, i) == Append(q, i)

(* addRequest(id, request): the executor pushes the item and calls
   processQueue, all within the call. *)
AddRequest ==
    /\ submitted < MaxRequests
    /\ LET i == submitted + 1
           run == ProcessQueue(Push(queue, i), activeRequests)
       IN  /\ submitted' = i
           /\ promise' = [promise EXCEPT ![i] = Pending]
           /\ Becomes(run)
           /\ last' = [h |-> "addRequest", r |-> i, ms |-> 0,
                       d |-> run.started]
    /\ UNCHANGED <<requestDelay, maxConcurrent, timers>>
    /\ UNCHANGED navVars

(* The sequence s without its k-th element. *)
Without(s, k) == SubSeq(s, 1, k - 1) \o SubSeq(s, k + 1, Len(s))

(* The delay of a suspended call elapses: processQueue resumes at the while
   condition. *)
DelayElapsed ==
    /\ \E k \in 1..Len(loop) :
          LET run == RunLoop(queue, activeRequests, Without(loop, k))
          IN  /\ Becomes(run)
              /\ last' = [h |-> "delay", r |-> 0, ms |-> 0,
                          d |-> run.started]
    /\ UNCHANGED <<requestDelay, maxConcurrent, promise, timers, submitted>>
    /\ UNCHANGED navVars

(* Variant: the error is swallowed and the promise resolved. *)
ForwardSwallowing(i, kind) == Resolved(OpValue(i))

(* What executeRequest hands to the item's promise: the value of the
   operation to resolve, its error to reject. *)
Forward(i, kind) ==
    IF kind = "resolved" THEN Resolved(OpValue(i)) ELSE Rejected(OpError(i))

(* Variant: the decrement sits in the try block. *)
ReleaseOnSuccessOnly(a, kind) == IF kind = "resolved" THEN a - 1 ELSE a

(* activeRequests-- in the finally block. *)
Release(a, kind) == a - 1

(* Variant: the wake-up sits in the try block. *)
RearmOnSuccessOnly(t, kind) == IF kind = "resolved" THEN t + 1 ELSE t

(* Variant: no wake-up is scheduled. *)
RearmNever(t, kind) == t

(* setTimeout(() => this.processQueue(), ...) in the finally block. *)
Rearm(t, kind) == t + 1

(* Variant: the wake-up waits for the whole delay. *)
WakeUpFullDelay(d) == d

(* The duration of that timeout. *)
WakeUp(d) == d \div 2

(* The operation of request i settles: executeRequest resumes after its
   await, settles the item's promise, releases the slot and schedules a
   processQueue call. *)
Complete(i, kind) ==
    /\ op[i] = "running"
    /\ op' = [op EXCEPT ![i] = kind]
    /\ promise' = Settle(promise, i, Forward(i, kind))
    /\ activeRequests' = Release(activeRequests, kind)
    /\ timers' = Rearm(timers, kind)
    /\ last' = [h |-> "complete", r |-> i, ms |-> WakeUp(requestDelay),
                d |-> {}]
    /\ UNCHANGED <<queue, isProcessing, requestDelay, maxConcurrent, loop,
                   submitted>>
    /\ UNCHANGED navVars

(* A timeout of executeRequest fires: processQueue is called. *)
TimerFire ==
    /\ timers > 0
    /\ timers' = timers - 1
    /\ LET run == ProcessQueue(queue, activeRequests)
       IN  /\ Becomes(run)
           /\ last' = [h |-> "timer", r |-> 0, ms |-> 0, d |-> run.started]
    /\ UNCHANGED <<requestDelay, maxConcurrent, promise, submitted>>
    /\ UNCHANGED navVars

(* Variant: clearQueue rejects every unsettled promise, dispatched or not. *)
CancelEveryPending(p, q) ==
    [i \in Requests |-> IF p[i] = Pending THEN Rejected(CancelError) ELSE p[i]]

(* Variant: clearQueue rejects nothing while the loop is active. *)
CancelUnlessProcessing(p, q) == IF isProcessing THEN p ELSE RejectAll(p, q)

(* The promises after clearQueue has rejected the items of q. *)
Cancel(p, q) == RejectAll(p, q)

(* clearQueue() *)
ClearQueue ==
    /\ promise' = Cancel(promise, queue)
    /\ queue' = <<>>
    /\ last' = [h |-> "clearQueue", r |-> Len(queue), ms |-> 0, d |-> {}]
    /\ UNCHANGED <<isProcessing, requestDelay, maxConcurrent, activeRequests,
                   op, loop, timers, submitted>>
    /\ UNCHANGED navVars

(* Variant: this.x = settings.x || 0 *)
UpdatedOrZero(old, field) ==
    IF field # {} THEN CHOOSE v \in field : TRUE ELSE 0

(* if (settings.x !== undefined) this.x = settings.x *)
Updated(old, field) ==
    IF field # {} THEN CHOOSE v \in field : TRUE ELSE old

(* updateSettings(settings) *)
UpdateSettings(settings) ==
    /\ requestDelay' = Updated(requestDelay, settings.requestDelay)
    /\ maxConcurrent' = Updated(maxConcurrent, settings.maxConcurrent)
    /\ last' = [h |-> "updateSettings", r |-> 0, ms |-> 0, d |-> {}]
    /\ UNCHANGED <<queue, isProcessing, activeRequests, promise, op, loop,
                   timers, submitted>>
    /\ UNCHANGED navVars

Next ==
    \/ AddRequest
    \/ DelayElapsed
    \/ \E i \in Requests, kind \in {"resolved", "rejected"} : Complete(i, kind)
    \/ TimerFire
    \/ ClearQueue
    \/ \E s \in SettingsChoices : UpdateSettings(s)

Spec == Init /\ [][Next]_vars

(* getStatus() *)
GetStatus ==
    [queueLength |-> Len(queue),
     activeRequests |-> activeRequests,
     isProcessing |-> isProcessing]

(* The scheduler configured before its first submission and the ceiling left
   alone from then on (the delay may still be changed). *)
NextFixedCeiling ==
    \/ AddRequest
    \/ DelayElapsed
    \/ \E i \in Requests, kind \in {"resolved", "rejected"} : Complete(i, kind)
    \/ TimerFire
    \/ ClearQueue
    \/ \E s \in SettingsChoices :
          /\ s.maxConcurrent = {} \/ submitted = 0
          /\ UpdateSettings(s)

SpecFixedCeiling == Init /\ [][NextFixedCeiling]_vars

(* The event loop: an awaited delay elapses, a timeout fires, and (the
   callers' operations being assumed to settle) every operation invoked
   settles. *)
Fairness ==
    /\ WF_vars(DelayElapsed)
    /\ WF_vars(TimerFire)
    /\ \A i \in Requests :
          WF_vars(\E kind \in {"resolved", "rejected"} : Complete(i, kind))

FairSpec == Spec /\ Fairness

FairSpecFixedCeiling == SpecFixedCeiling /\ Fairness

----------------------------------------------------------------------------
(* The entity URL navigator.  A query string is what URLSearchParams gives
   for its two parameters: each is absent (the empty set) or has a value; a
   value of id is a string, written as the sequence of its characters. *)

Query(id, action) == [id |-> id, action |-> action]

QueryChoices ==
    { Query({<<"7">>}, {"view"}),            \* ?id=7&action=view
      Query({<<"8">>}, {"detail"}),          \* ?id=8&action=detail
      Query({<<"a", "b", "c">>}, {"view"}),  \* ?id=abc&action=view
      Query({<<>>}, {"view"}),               \* ?id=&action=view
      Query({}, {"view"}),                   \* ?action=view
      Query({<<"7">>}, {"edit"}),            \* ?id=7&action=edit
      Query({<<"7">>}, {}) }                 \* ?id=7

DigitValue ==
    [c \in {"0", "1", "2", "3", "4", "5", "6", "7", "8", "9"} |->
        CASE c = "0" -> 0 [] c = "1" -> 1 [] c = "2" -> 2 [] c = "3" -> 3
          [] c = "4" -> 4 [] c = "5" -> 5 [] c = "6" -> 6 [] c = "7" -> 7
          [] c = "8" -> 8 [] c = "9" -> 9]

IsDigit(c) == c \in DOMAIN DigitValue

(* The value of the leading digits of s, acc being the value read so far. *)
RECURSIVE LeadingDigits(_, _)
LeadingDigits(s, acc) ==
    IF s = <<>> \/ ~IsDigit(Head(s)) THEN acc
    ELSE LeadingDigits(Tail(s), 10 * acc + DigitValue[Head(s)])

(* A number: <<n>>, or <<>> for NaN. *)
NaN == <<>>

(* parseInt(s), for a string of digits and letters: the leading digits, NaN
   if there is none. *)
ParseInt(s) ==
    IF s = <<>> \/ ~IsDigit(Head(s)) THEN NaN ELSE <<LeadingDigits(s, 0)>>

(* searchParams.get(name): the value, where null and the empty string are
   the two falsy results. *)
Truthy(param) == param # {} /\ param # {<<>>}

(* Variant: any action triggers the load. *)
QualifiesAnyAction(q) == Truthy(q.id) /\ q.action # {}

(* entityId && (action === 'view' || action === 'detail') *)
Qualifies(q) == Truthy(q.id) /\ (q.action = {"view"} \/ q.action = {"detail"})

(* The id parameter of a qualifying query. *)
EntityId(q) == CHOOSE v \in q.id : TRUE

(* The call getEntityById(parseInt(entityId)) made for q. *)
NewFetch(q) == [q |-> q, arg |-> ParseInt(EntityId(q)), state |-> "pending"]

(* Variant: a query already fetched is not fetched again. *)
FetchesCached(fs, q) ==
    IF Qualifies(q) /\ ~\E k \in 1..Len(fs) : fs[k].q = q
    THEN Append(fs, NewFetch(q)) ELSE fs

(* The fetches after the effect has run for q. *)
Fetches(fs, q) == IF Qualifies(q) THEN Append(fs, NewFetch(q)) ELSE fs

(* The effect of useEffect(..., [location.search]) running for q. *)
Effect(q) ==
    /\ navigations < MaxNavigations
    /\ navigations' = navigations + 1
    /\ search' = <<q>>
    /\ fetches' = Fetches(fetches, q)
    /\ UNCHANGED <<calls, escaped, navLast>>
    /\ UNCHANGED schedVars

(* The component is mounted, with or without onAdditionalAction, at q. *)
Mount(additional, q) ==
    /\ search = <<>>
    /\ hasAdditional' = additional
    /\ Effect(q)

(* location.search changes to q. *)
Navigate(q) ==
    /\ search # <<>>
    /\ search # <<q>>
    /\ UNCHANGED hasAdditional
    /\ Effect(q)

(* What the promise of getEntityById settles with: a rejection, or a
   response with its success flag and with or without data. *)
Responses ==
    [settled : {"resolved"}, success : BOOLEAN, hasData : BOOLEAN]
        \cup {[settled |-> "rejected", success |-> FALSE, hasData |-> FALSE]}

(* The data of the response to the k-th fetch. *)
Entity(k) == <<"entity", k>>

(* Variant: response.success || response.data *)
SucceededEither(r) == r.settled = "resolved" /\ (r.success \/ r.hasData)

(* response.success && response.data *)
Succeeded(r) == r.settled = "resolved" /\ r.success /\ r.hasData

Loaded(k) ==
    [cb |-> "onEntityLoaded", k |-> k, entity |-> Entity(k), id |-> NaN]

Additional(k, id) ==
    [cb |-> "onAdditionalAction", k |-> k, entity |-> Entity(k), id |-> id]

(* Variant: the additional action runs first. *)
CallbacksAdditionalFirst(k, r, threw) ==
    IF Succeeded(r)
    THEN (IF hasAdditional
          THEN <<Additional(k, ParseInt(EntityId(fetches[k].q)))>>
          ELSE <<>>) \o <<Loaded(k)>>
    ELSE <<>>

(* Variant: the callbacks are dropped when the query string has changed
   since the fetch was made. *)
CallbacksIfCurrent(k, r, threw) ==
    IF Succeeded(r) /\ search = <<fetches[k].q>>
    THEN <<Loaded(k)>> \o
         (IF ~threw /\ hasAdditional
          THEN <<Additional(k, ParseInt(EntityId(fetches[k].q)))>>
          ELSE <<>>)
    ELSE <<>>

(* The callbacks loadSpecificEntity invokes when the k-th fetch settles with
   r; threw: onEntityLoaded throws. *)
Callbacks(k, r, threw) ==
    IF Succeeded(r)
    THEN <<Loaded(k)>> \o
         (IF ~threw /\ hasAdditional
          THEN <<Additional(k, ParseInt(EntityId(fetches[k].q)))>>
          ELSE <<>>)
    ELSE <<>>

(* Variant: loadSpecificEntity without its try/catch. *)
EscapesUncaught(r, threw, threw2) ==
    \/ r.settled = "rejected"
    \/ Succeeded(r) /\ (threw \/ (hasAdditional /\ threw2))

(* Whether an error leaves loadSpecificEntity: its whole body is inside
   try/catch. *)
Escapes(r, threw, threw2) == FALSE

(* The promise of the k-th fetch settles with r: loadSpecificEntity resumes
   after its await.  threw, threw2: onEntityLoaded, onAdditionalAction
   throw when called. *)
FetchSettles(k, r, threw, threw2) ==
    /\ fetches[k].state = "pending"
    /\ fetches' = [fetches EXCEPT ![k].state = "settled"]
    /\ calls' = calls \o Callbacks(k, r, threw)
    /\ escaped' = (escaped \/ Escapes(r, threw, threw2))
    /\ navLast' = [k |-> k, response |-> r, threw |-> threw]
    /\ UNCHANGED <<search, hasAdditional, navigations>>
    /\ UNCHANGED schedVars

NextNav ==
    \/ \E additional \in BOOLEAN, q \in QueryChoices : Mount(additional, q)
    \/ \E q \in QueryChoices : Navigate(q)
    \/ \E k \in 1..Len(fetches), r \in Responses, threw, threw2 \in BOOLEAN :
          FetchSettles(k, r, threw, threw2)

SpecNav == Init /\ [][NextNav]_vars

----------------------------------------------------------------------------
(* Properties *)

(* The requests whose operation has been invoked and has not settled. *)
InFlight == {i \in Requests : op[i] = "running"}

IsSettled(p) == p.state \in {"resolved", "rejected"}

(* A step in which the operation of request i settles. *)
Settles(i) == op[i] = "running" /\ op'[i] \in {"resolved", "rejected"}

(* C1: with the ceiling left unchanged once submissions have begun, the
   number of operations started and not yet settled never exceeds
   maxConcurrent. *)
C1_InFlightWithinCeiling == Cardinality(InFlight) <= maxConcurrent

(* A request is held back while the default ceiling is filled. *)
C1_Witness ==
    /\ maxConcurrent = DefaultMaxConcurrent
    /\ Cardinality(InFlight) = maxConcurrent
    /\ Len(queue) > 0

(* C2, as stated: in every reachable state, updateSettings included,
   activeRequests is at most maxConcurrent. *)
C2_Original == activeRequests <= maxConcurrent

(* C2, amended: activeRequests exceeds maxConcurrent only because
   updateSettings lowered the ceiling: every step that does not lower the
   ceiling keeps activeRequests <= maxConcurrent if it held before, and no
   step raises activeRequests above the ceiling. *)
C2_Amended ==
    [][/\ (activeRequests <= maxConcurrent /\ maxConcurrent' >= maxConcurrent)
            => activeRequests' <= maxConcurrent'
       /\ activeRequests' > activeRequests
            => activeRequests' <= maxConcurrent']_vars

(* The loop, resumed after its delay, leaves a request pending because the
   changed ceiling of 1 is filled. *)
C2_Witness ==
    /\ last.h = "delay"
    /\ last.d = {}
    /\ maxConcurrent = 1
    /\ activeRequests = 1
    /\ Len(queue) > 0

(* C3: requests are dispatched in submission order: whenever the operation
   of a request has been started, every request submitted before it has been
   started too or was cancelled while pending, whatever the order in which
   the operations settle. *)
C3_Fifo ==
    \A i, j \in Requests :
        (i < j /\ op[j] # "idle")
            => (op[i] # "idle" \/ promise[i] = Rejected(CancelError))

(* Two requests waited together, the older one has been started alone, after
   an operation settled. *)
C3_Witness ==
    \E i, j \in Requests :
        /\ i < j
        /\ last.d = {i}
        /\ last.h = "timer"
        /\ j \in Range(queue)

(* C4, as stated: the promise of a submission resolves exactly when its
   operation resolves, rejects exactly when its operation rejects, and settles
   in no other circumstance. *)
C4_Original ==
    \A i \in Requests :
        /\ promise[i].state = "resolved" <=> op[i] = "resolved"
        /\ promise[i].state = "rejected" <=> op[i] = "rejected"

(* C4, amended: the promise is resolved exactly when the operation has
   resolved, with its value; it is rejected with the operation's error
   exactly when the operation has rejected; the one other way it settles is
   rejection with the cancellation error, and then the operation was never
   invoked. *)
C4_Amended ==
    \A i \in Requests :
        /\ promise[i].state = "resolved" <=> op[i] = "resolved"
        /\ op[i] = "resolved" => promise[i] = Resolved(OpValue(i))
        /\ op[i] = "rejected" <=> promise[i] = Rejected(OpError(i))
        /\ (promise[i].state = "rejected" /\ op[i] # "rejected")
              => (promise[i] = Rejected(CancelError) /\ op[i] = "idle")

(* One promise resolved, one rejected by its operation, one cancelled. *)
C4_Witness ==
    \E i, j, k \in Requests :
        /\ promise[i] = Resolved(OpValue(i))
        /\ promise[j] = Rejected(OpError(j))
        /\ promise[k] = Rejected(CancelError)

(* C5, as stated: when addRequest returns, the operation just submitted has
   not been invoked. *)
C5_Original == last.h = "addRequest" => op[last.r] = "idle"

(* C5, amended: addRequest invokes the submitted operation within the call
   exactly when, at the call, no dispatch loop is active, nothing is pending
   and the in-flight count is below the ceiling; otherwise the request is the
   last pending item when addRequest returns, and its operation is invoked
   by a later run of the dispatch loop. *)
C5_Amended ==
    [][/\ submitted' = submitted + 1 =>
            LET i == submitted' IN
            /\ op'[i] = "running" <=>
                  (~isProcessing /\ queue = <<>>
                     /\ activeRequests < maxConcurrent)
            /\ op'[i] # "running" =>
                  (op'[i] = "idle" /\ queue' # <<>>
                     /\ queue'[Len(queue')] = i)
       /\ \A i \in Requests :
            (op[i] = "idle" /\ op'[i] = "running") =>
                (last'.d = {i} /\ last'.h \in {"addRequest", "timer", "delay"})
      ]_vars

(* A call of addRequest that started an older request and left the submitted
   one pending. *)
C5_Witness ==
    /\ last.h = "addRequest"
    /\ last.d # {}
    /\ last.r \notin last.d
    /\ op[last.r] = "idle"

(* C6: clearQueue rejects every pending request with the cancellation error
   and empties the queue; in-flight requests are untouched: the count and the
   operations are unchanged, their promises stay unsettled, and each later
   settles with the outcome of its own operation. *)
C6_ClearQueue ==
    /\ [][last'.h = "clearQueue" =>
            /\ queue' = <<>>
            /\ last'.r = Len(queue)
            /\ \A i \in Range(queue) : promise'[i] = Rejected(CancelError)
            /\ \A i \in Requests \ Range(queue) : promise'[i] = promise[i]
            /\ activeRequests' = activeRequests
            /\ op' = op]_vars
    /\ [](\A i \in InFlight : promise[i] = Pending)
    /\ [][\A i \in Requests :
            Settles(i) => promise'[i] = IF op'[i] = "resolved"
                                        THEN Resolved(OpValue(i))
                                        ELSE Rejected(OpError(i))]_vars

(* An operation that was in flight when clearQueue cancelled a later request
   has settled. *)
C6_Witness ==
    \E i, j \in Requests :
        /\ i < j
        /\ promise[j] = Rejected(CancelError)
        /\ last = [h |-> "complete", r |-> i, ms |-> WakeUp(requestDelay),
                   d |-> {}]
        /\ IsSettled(promise[i])

(* C7: activeRequests is the number of operations started and not yet
   settled, and it decreases only by one, in the step in which an in-flight
   operation settles. *)
C7_ActiveCount ==
    /\ [](activeRequests = Cardinality(InFlight))
    /\ [][activeRequests' < activeRequests =>
            /\ activeRequests' = activeRequests - 1
            /\ \E i \in Requests : Settles(i)]_vars

(* After a failure, two operations still hold their slots. *)
C7_Witness ==
    /\ last.h = "complete"
    /\ op[last.r] = "rejected"
    /\ Cardinality(InFlight) = 2
    /\ activeRequests = 2

(* C8: updateSettings sets the fields it is given, keeps the ones left
   undefined, and changes nothing else: queue, in-flight count, loop flag,
   suspended loop, timers, promises and operations are as before. *)
C8_UpdateSettings ==
    [][last'.h = "updateSettings" =>
           /\ UNCHANGED <<queue, activeRequests, isProcessing, loop, timers,
                          promise, op, submitted>>
           /\ \A s \in SettingsChoices :
                  UpdateSettings(s) =>
                      /\ requestDelay' \in
                            (IF s.requestDelay = {} THEN {requestDelay}
                                                    ELSE s.requestDelay)
                      /\ maxConcurrent' \in
                            (IF s.maxConcurrent = {} THEN {maxConcurrent}
                                                     ELSE s.maxConcurrent)
      ]_vars

(* updateSettings has changed the ceiling alone, below the in-flight count,
   with requests pending. *)
C8_Witness ==
    /\ last.h = "updateSettings"
    /\ requestDelay = DefaultRequestDelay
    /\ maxConcurrent = 1
    /\ activeRequests > 1
    /\ Cardinality(InFlight) = activeRequests
    /\ Len(queue) > 0

(* C9: the rejection of an operation rejects the promise of its own
   submission with its error and no other promise, leaves the queue and the
   other operations alone, and, like a success, releases one slot and
   schedules one dispatch attempt. *)
C9_FailureIsLocal ==
    [][\A i \in Requests :
           Settles(i) =>
               /\ op'[i] = "rejected" => promise'[i] = Rejected(OpError(i))
               /\ \A j \in Requests \ {i} :
                      promise'[j] = promise[j] /\ op'[j] = op[j]
               /\ queue' = queue
               /\ activeRequests' = activeRequests - 1
               /\ timers' = timers + 1
               /\ UNCHANGED <<isProcessing, loop>>]_vars

(* A second failure, with a sibling in flight and another pending. *)
C9_Witness ==
    \E i \in Requests :
        /\ last.h = "complete"
        /\ i # last.r
        /\ op[i] = "rejected"
        /\ op[last.r] = "rejected"
        /\ InFlight # {}
        /\ Len(queue) > 0

(* C10: with a ceiling of 1, a request is not started before every request
   submitted before it has settled. *)
C10_Serial ==
    maxConcurrent = 1 =>
        \A i, j \in Requests :
            (i < j /\ op[j] # "idle") => IsSettled(promise[i])

(* Ceiling 1: the third request runs, the first two have settled by their
   operations, the fourth waits. *)
C10_Witness ==
    /\ maxConcurrent = 1
    /\ op[1] \in {"resolved", "rejected"}
    /\ op[2] \in {"resolved", "rejected"}
    /\ op[3] = "running"
    /\ queue = <<4>>

(* No operation has settled yet. *)
NothingSettled == \A i \in Requests : op[i] \in {"idle", "running"}

(* With the ceiling left alone, no timeout exists before the first operation
   settles: none has been scheduled, so none has elapsed. *)
NoWaitBeforeFirstSettle == NothingSettled => (timers = 0 /\ loop = <<>>)

(* C11, as stated: two operation starts are separated by an elapsed wait; so,
   as long as no wait can have elapsed (no operation has settled, see
   NoWaitBeforeFirstSettle), at most one operation has been started. *)
C11_Original == NothingSettled => Cardinality(InFlight) <= 1

(* The number of times i occurs in q. *)
Occurrences(q, i) == Cardinality({k \in 1..Len(q) : q[k] = i})

(* Request i has its own entry: queued once while it waits, never otherwise,
   and its promise carries the outcome of its own operation. *)
OwnEntry(i) ==
    /\ Occurrences(queue, i) =
          IF promise[i] = Pending /\ op[i] = "idle" THEN 1 ELSE 0
    /\ op[i] = "resolved" => promise[i] = Resolved(OpValue(i))
    /\ op[i] = "rejected" => promise[i] = Rejected(OpError(i))

(* C12: two submissions with the same id have separate entries, the operation
   of each is invoked at most once, and each promise settles with the outcome
   of its own operation. *)
C12_NoDedup ==
    /\ [](\A i, j \in 1..submitted :
            (i < j /\ IdOf(i) = IdOf(j)) => (OwnEntry(i) /\ OwnEntry(j)))
    /\ [][\A i \in Requests :
            (op[i] # "idle" /\ op'[i] = "running") => op[i] = "running"]_vars

(* Two submissions with the same id wait in the queue together. *)
C12_Witness ==
    \E i, j \in Range(queue) : i < j /\ IdOf(i) = IdOf(j)

(* The query string the effect last ran for. *)
CurrentQuery == search[1]

(* A step in which the effect runs. *)
EffectRuns == search' # search

(* A step in which the k-th fetch settles. *)
FetchSettled(k) ==
    /\ k \in 1..Len(fetches)
    /\ fetches[k].state = "pending"
    /\ fetches'[k].state = "settled"

(* The response carries a success indicator and a payload. *)
IsSuccess(r) == r.settled = "resolved" /\ r.success /\ r.hasData

(* Every callback was invoked for a fetch that was made and has settled. *)
CallsFollowFetches ==
    \A n \in 1..Len(calls) :
        /\ calls[n].k \in 1..Len(fetches)
        /\ fetches[calls[n].k].state = "settled"

(* C13, as stated: on a change of the query string getEntityById is invoked
   if and only if the query string has an id parameter and an action
   parameter equal to "view" or "detail". *)
C13_Original ==
    [][EffectRuns =>
          (Len(fetches') = Len(fetches) + 1
             <=> (CurrentQuery'.id # {}
                    /\ CurrentQuery'.action \in {{"view"}, {"detail"}}))]_vars

(* C13, amended: ... if and only if the query string has a non-empty id
   parameter and an action parameter equal to "view" or "detail"; otherwise
   no fetch is made; the change itself fires no callback, and callbacks
   fire for settled fetches only. *)
C13_Amended ==
    /\ [][EffectRuns =>
            /\ Len(fetches') = Len(fetches) + 1
                 <=> (CurrentQuery'.id \notin {{}, {<<>>}}
                        /\ CurrentQuery'.action \in {{"view"}, {"detail"}})
            /\ Len(fetches') # Len(fetches) + 1 => fetches' = fetches
            /\ calls' = calls]_vars
    /\ []CallsFollowFetches

(* One change made a fetch; the next one, to ?id=&action=view, made none. *)
C13_Witness ==
    /\ search = <<Query({<<>>}, {"view"})>>
    /\ navigations = 2
    /\ Len(fetches) = 1

(* C14, as stated: when a fetch resolves with success and a payload,
   onEntityLoaded is called with the payload and then, if configured,
   onAdditionalAction with the payload and the id given to getEntityById. *)
C14_Original ==
    [][\A k \in 1..Len(fetches) :
           (FetchSettled(k) /\ IsSuccess(navLast'.response)) =>
               calls' = calls \o <<Loaded(k)>> \o
                           (IF hasAdditional
                            THEN <<Additional(k, fetches[k].arg)>>
                            ELSE <<>>)]_vars

(* The number of calls of callback cb for fetch k. *)
CallCount(cb, k) ==
    Cardinality({n \in 1..Len(calls) : calls[n].cb = cb /\ calls[n].k = k})

(* C14, amended: ... and then, if configured and if onEntityLoaded returned
   normally, onAdditionalAction with the payload and the id given to
   getEntityById; each at most once per fetch, onAdditionalAction only
   right after onEntityLoaded for the same fetch. *)
C14_Amended ==
    /\ [][\A k \in 1..Len(fetches) :
            (FetchSettled(k) /\ IsSuccess(navLast'.response)) =>
                calls' = calls \o <<Loaded(k)>> \o
                            (IF hasAdditional /\ ~navLast'.threw
                             THEN <<Additional(k, fetches[k].arg)>>
                             ELSE <<>>)]_vars
    /\ [](\A k \in 1..Len(fetches) :
            /\ CallCount("onEntityLoaded", k) <= 1
            /\ CallCount("onAdditionalAction", k) <= 1)
    /\ [](\A n \in 1..Len(calls) :
            calls[n].cb = "onAdditionalAction" =>
                (n > 1 /\ calls[n - 1] = Loaded(calls[n].k)))

(* ?id=7&action=view was fetched and resolved: onEntityLoaded, then
   onAdditionalAction with the payload and 7. *)
C14_Witness ==
    /\ Len(fetches) = 1
    /\ fetches[1].q = Query({<<"7">>}, {"view"})
    /\ calls = <<Loaded(1), Additional(1, <<7>>)>>

(* C15: when the fetch fails (no success flag, no payload, or a rejected
   promise) no callback is called, and no error leaves the navigator. *)
C15_FailureIsSilent ==
    /\ [][\A k \in 1..Len(fetches) :
            (FetchSettled(k) /\ ~IsSuccess(navLast'.response)) =>
                calls' = calls]_vars
    /\ []~escaped

(* A fetch was rejected and another came back without success, with a
   configured additional action: nothing was called. *)
C15_Witness ==
    /\ hasAdditional
    /\ Len(fetches) = 2
    /\ \A k \in 1..2 : fetches[k].state = "settled"
    /\ navLast.response.settled = "rejected"
    /\ calls = <<>>

(* The string is written with digits only. *)
IsIntegerString(s) == s # <<>> /\ \A n \in 1..Len(s) : IsDigit(s[n])

(* C16, as stated: no callback fires for a query string whose id is not an
   integer, whatever the fetch returns. *)
C16_Original ==
    \A n \in 1..Len(calls) :
        IsIntegerString(EntityId(fetches[calls[n].k].q))

(* C17: the effect makes one fetch when it runs for a qualifying query
   string, seen before or not, and none otherwise; nothing else makes a
   fetch, in particular not the settling of one; a fetch made is never
   replaced. *)
C17_OneFetchPerChange ==
    [][/\ Len(fetches') =
            Len(fetches) + (IF EffectRuns /\ Qualifies(CurrentQuery')
                            THEN 1 ELSE 0)
       /\ (EffectRuns /\ Qualifies(CurrentQuery')) =>
              /\ fetches'[Len(fetches')].q = CurrentQuery'
              /\ fetches'[Len(fetches')].state = "pending"
       /\ \A k \in 1..Len(fetches) : fetches'[k].q = fetches[k].q]_vars

(* The query string came back to one fetched before, whose fetch has
   settled: a second fetch is outstanding. *)
C17_Witness ==
    \E k \in 1..Len(fetches) :
        /\ k < Len(fetches)
        /\ fetches[k].q = fetches[Len(fetches)].q
        /\ fetches[k].state = "settled"
        /\ fetches[Len(fetches)].state = "pending"
        /\ search = <<fetches[k].q>>

(* C18, as stated, for the item of a submit skipped just before the loop
   resumes: the running loop does not end while that item is still pending. *)
C18_Original ==
    [][(isProcessing /\ last.h = "addRequest" /\ last.d = {}
          /\ last'.h = "delay")
         => ~(loop' = <<>> /\ last.r \in Range(queue'))]_vars

(* C18, amended: at most one call of processQueue is suspended, and exactly
   while the flag is set; a submit or a wake-up that finds the flag set
   starts nothing, dequeues nothing and leaves the loop as it is; the loop,
   when it resumes, starts the front of the queue if the in-flight count is
   below the ceiling and otherwise ends, the queue unchanged. *)
C18_Amended ==
    /\ [](Len(loop) <= 1 /\ (isProcessing <=> loop # <<>>))
    /\ [][(isProcessing /\ last'.h \in {"addRequest", "timer"}) =>
            /\ last'.d = {}
            /\ op' = op
            /\ loop' = loop
            /\ isProcessing'
            /\ queue' = IF last'.h = "addRequest"
                        THEN Append(queue, last'.r) ELSE queue]_vars
    /\ [][last'.h = "delay" =>
            IF queue # <<>> /\ activeRequests < maxConcurrent
            THEN last'.d = {Head(queue)} /\ queue' = Tail(queue)
            ELSE /\ last'.d = {}
                 /\ queue' = queue
                 /\ loop' = <<>>
                 /\ ~isProcessing']_vars

(* A submit made during the loop's delay, with a free slot, was skipped. *)
C18_Witness ==
    /\ last.h = "addRequest"
    /\ last.d = {}
    /\ isProcessing
    /\ activeRequests < maxConcurrent
    /\ last.r \in Range(queue)

(* C19: an operation is started only in a state in which fewer operations
   are in flight than the current ceiling allows. *)
C19_StartBelowCeiling ==
    [][\A i \in Requests :
           (op[i] = "idle" /\ op'[i] = "running")
               => Cardinality(InFlight) < maxConcurrent]_vars

(* After the ceiling was lowered below the in-flight count, a wake-up that
   follows a completion leaves the pending request where it is. *)
C19_Witness ==
    /\ last.h = "timer"
    /\ last.d = {}
    /\ Len(queue) > 0
    /\ ~isProcessing
    /\ maxConcurrent = 1
    /\ Cardinality(InFlight) = 2

(* C20: the step in which an operation settles decrements the count and
   schedules one dispatch attempt, for half the configured delay; it
   dispatches nothing itself. *)
C20_Completion ==
    [][\A i \in Requests :
           Settles(i) =>
               /\ activeRequests' = activeRequests - 1
               /\ timers' = timers + 1
               /\ 2 * last'.ms = requestDelay
               /\ last'.d = {}
               /\ queue' = queue
               /\ \A j \in Requests \ {i} : op'[j] = op[j]]_vars

(* A slot is free, a request is pending, no loop runs, and the attempt
   scheduled for half the default delay has not run yet. *)
C20_Witness ==
    /\ last.h = "complete"
    /\ 2 * last.ms = DefaultRequestDelay
    /\ Len(queue) > 0
    /\ activeRequests < maxConcurrent
    /\ ~isProcessing
    /\ timers = 1

(* A step in which the dispatch loop hands an item to executeRequest. *)
Dispatches == last' # last /\ last'.d # {}

(* C21: a run of the loop between two awaits dispatches one request; after
   a dispatch the loop is suspended for the configured delay exactly if the
   queue is still non-empty; while a loop is suspended the flag is set, and
   a dispatch that continues a pass comes out of such a suspension. *)
C21_DelayBetweenDispatches ==
    /\ [][Dispatches =>
            /\ Cardinality(last'.d) = 1
            /\ loop' = IF queue' # <<>> THEN <<requestDelay>> ELSE <<>>
            /\ (last'.h = "delay" => loop # <<>> /\ isProcessing)]_vars
    /\ [](loop # <<>> => isProcessing)

(* The loop dispatched out of a suspension and is suspended again for the
   default delay: three dispatches of one pass are two delays apart. *)
C21_Witness ==
    /\ last.h = "delay"
    /\ last.d # {}
    /\ loop = <<DefaultRequestDelay>>
    /\ isProcessing
    /\ Cardinality(InFlight) >= 2

(* Nothing pending and no loop active. *)
Idle == queue = <<>> /\ ~isProcessing

(* C22: a dispatch that empties the queue ends the loop in the same step;
   after a submit to an idle scheduler with a free slot getStatus() reports
   isProcessing false and queueLength 0, the request being in flight. *)
C22_NoDelayAfterLast ==
    /\ [][(Dispatches /\ queue' = <<>>) =>
              ~GetStatus'.isProcessing /\ loop' = <<>>]_vars
    /\ [][(Idle /\ activeRequests < maxConcurrent /\ submitted' # submitted)
              => /\ GetStatus'.isProcessing = FALSE
                 /\ GetStatus'.queueLength = 0
                 /\ GetStatus'.activeRequests = activeRequests + 1
                 /\ op'[submitted'] = "running"]_vars

(* A submit to an idle scheduler was dispatched at once and left it idle. *)
C22_Witness ==
    /\ last.h = "addRequest"
    /\ last.d = {last.r}
    /\ GetStatus.isProcessing = FALSE
    /\ GetStatus.queueLength = 0
    /\ GetStatus.activeRequests = 2

(* The promise of request i was rejected by clearQueue. *)
Cancelled(i) == promise[i] = Rejected(CancelError)

(* The operation of request i has been invoked. *)
Dispatched(i) == op[i] # "idle"

(* clearQueue has cancelled a request during the present suspension of the
   loop.  Requests are numbered in the order of submission and the queue is
   first-in first-out, so a request cancelled since the last dispatch, which
   is where the suspension began, is one submitted after every request
   dispatched so far. *)
ClearedWhileSuspended ==
    /\ loop # <<>>
    /\ \E c \in Requests :
          Cancelled(c) /\ \A d \in Requests : Dispatched(d) => d < c

(* ClearedWhileSuspended is what its name says: it becomes true when
   clearQueue cancels a request while the loop is suspended, and lasts
   until the loop resumes. *)
ClearedWhileSuspendedIsExact ==
    [][ClearedWhileSuspended' <=>
          /\ loop' # <<>>
          /\ last'.h # "delay"
          /\ \/ ClearedWhileSuspended
             \/ last'.h = "clearQueue" /\ last'.r > 0]_vars

(* C23, as stated: when clearQueue is called while the loop is suspended,
   the loop on resuming dispatches none of the cancelled requests and
   clears its flag; the operation of a cancelled request is never
   invoked. *)
C23_Original ==
    /\ [][(ClearedWhileSuspended /\ last'.h = "delay") =>
              /\ \A i \in last'.d : ~Cancelled(i)
              /\ ~isProcessing']_vars
    /\ [](\A i \in Requests : Cancelled(i) => ~Dispatched(i))

(* C23, amended: clearQueue empties the queue and rejects what was in it
   whether or not the loop is active, leaving the loop as it is; when it
   was called while the loop is suspended, the loop on resuming dispatches
   none of the cancelled requests, and clears its flag without a dispatch
   if nothing was submitted in the meantime; the operation of a cancelled
   request is never invoked. *)
C23_Amended ==
    /\ [][last'.h = "clearQueue" =>
              /\ queue' = <<>>
              /\ \A i \in Range(queue) : Cancelled(i)'
              /\ isProcessing' = isProcessing
              /\ loop' = loop
              /\ op' = op]_vars
    /\ [][(ClearedWhileSuspended /\ last'.h = "delay") =>
              /\ \A i \in last'.d : promise[i] = Pending
              /\ queue = <<>> =>
                    (last'.d = {} /\ ~isProcessing' /\ loop' = <<>>)]_vars
    /\ [](\A i \in Requests : Cancelled(i) => op[i] = "idle")

(* The loop has resumed after a clearQueue made during its delay: with a
   free slot it dispatched nothing and cleared its flag. *)
C23_Witness ==
    /\ last.h = "delay"
    /\ last.d = {}
    /\ ~isProcessing
    /\ queue = <<>>
    /\ activeRequests < maxConcurrent
    /\ \E c \in Requests :
          Cancelled(c) /\ \A d \in Requests : Dispatched(d) => d < c

(* C24: a change of the query string leaves the fetches made before it
   outstanding, and a fetch that resolves with success fires its callbacks
   whatever the query string is by then. *)
C24_NoStaleGuard ==
    /\ [][EffectRuns =>
              \A k \in 1..Len(fetches) : fetches'[k] = fetches[k]]_vars
    /\ [][\A k \in 1..Len(fetches) :
              (FetchSettled(k) /\ IsSuccess(navLast'.response)) =>
                  /\ Len(calls') > Len(calls)
                  /\ calls'[Len(calls) + 1] = Loaded(k)]_vars

(* The query string went from Q1 to Q2 with Q1's fetch outstanding; Q2's
   fetch resolved first: the last onEntityLoaded carries Q1's entity while
   Q2 is the current query string. *)
C24_Witness ==
    /\ Len(fetches) = 2
    /\ fetches[1].q # fetches[2].q
    /\ search = <<fetches[2].q>>
    /\ calls = <<Loaded(2), Loaded(1)>>
    /\ navLast.k = 1

(* C30: when onEntityLoaded throws during a successful load, nothing
   leaves loadSpecificEntity and onAdditionalAction is not called for that
   fetch. *)
C30_CallbackErrorCaught ==
    /\ [][\A k \in 1..Len(fetches) :
              (FetchSettled(k) /\ IsSuccess(navLast'.response)
                 /\ navLast'.threw) =>
                  /\ calls' = Append(calls, Loaded(k))
                  /\ ~escaped']_vars
    /\ [](\A n \in 1..Len(calls) :
            (calls[n].cb = "onAdditionalAction" /\ calls[n].k = navLast.k)
                => ~navLast.threw)

(* onEntityLoaded threw in a navigator configured with onAdditionalAction:
   the call of onEntityLoaded is the last one made, and no error escaped. *)
C30_Witness ==
    /\ hasAdditional
    /\ navLast.threw
    /\ IsSuccess(navLast.response)
    /\ calls # <<>>
    /\ calls[Len(calls)] = Loaded(navLast.k)
    /\ ~escaped

(* The promise of request i was settled with the outcome of its
   operation. *)
SettledByOperation(i) ==
    \/ promise[i] = Resolved(OpValue(i)) /\ op[i] = "resolved"
    \/ promise[i] = Rejected(OpError(i)) /\ op[i] = "rejected"

(* C25: a settled promise never changes; a promise is settled either by
   the step in which its operation settles, with that outcome, or by a
   clearQueue that finds the request in the queue and never dispatched; so
   a dispatched request is never rejected by clearQueue and a cancelled one
   never gets an operation outcome. *)
C25_SettlesOnce ==
    /\ [][\A i \in Requests :
            /\ IsSettled(promise[i]) => promise'[i] = promise[i]
            /\ (promise[i] = Pending /\ IsSettled(promise'[i])) =>
                  \/ /\ Settles(i)
                     /\ SettledByOperation(i)'
                     /\ last'.h = "complete"
                  \/ /\ i \in Range(queue)
                     /\ ~Dispatched(i)
                     /\ Cancelled(i)'
                     /\ last'.h = "clearQueue"]_vars
    /\ [](\A i \in Requests :
            IsSettled(promise[i]) =>
                (SettledByOperation(i) \/ (Cancelled(i) /\ ~Dispatched(i))))
    /\ [](\A i \in Requests : Dispatched(i) => ~Cancelled(i))

(* One request resolved, one failed, one was cancelled, and a clearQueue
   made with the fourth in flight left its promise pending. *)
C25_Witness ==
    /\ last.h = "clearQueue"
    /\ \E i \in Requests : promise[i] = Resolved(OpValue(i))
    /\ \E i \in Requests : promise[i] = Rejected(OpError(i))
    /\ \E i \in Requests : Cancelled(i)
    /\ \E i \in Requests : op[i] = "running" /\ promise[i] = Pending

(* The number of submitted requests whose promise is settled. *)
SettledCount == Cardinality({i \in Requests : IsSettled(promise[i])})

(* C26: every submitted request is in the queue once and not dispatched,
   or in flight, or settled, and in one of these only; a request not
   submitted is in none; no request is dispatched twice; queueLength,
   activeRequests and the number settled add up to the number submitted;
   activeRequests is not negative. *)
C26_Conservation ==
    /\ [](\A i \in Requests :
            /\ i <= submitted =>
                 \/ /\ Occurrences(queue, i) = 1
                    /\ op[i] = "idle" /\ promise[i] = Pending
                 \/ /\ Occurrences(queue, i) = 0
                    /\ op[i] = "running" /\ promise[i] = Pending
                 \/ /\ Occurrences(queue, i) = 0
                    /\ op[i] # "running" /\ IsSettled(promise[i])
            /\ i > submitted =>
                 /\ Occurrences(queue, i) = 0
                 /\ op[i] = "idle" /\ promise[i] = Unsubmitted)
    /\ [](GetStatus.queueLength + GetStatus.activeRequests + SettledCount
            = submitted)
    /\ [](activeRequests >= 0 /\ activeRequests = Cardinality(InFlight))
    /\ [][\A i \in Requests :
            (op'[i] = "running" /\ op[i] # "running") =>
                (op[i] = "idle" /\ last'.d = {i})]_vars

(* All four requests submitted: one pending, one in flight, one completed
   and one cancelled. *)
C26_Witness ==
    /\ submitted >= 4
    /\ GetStatus.queueLength = 1
    /\ GetStatus.activeRequests = 1
    /\ \E i \in Requests : promise[i] = Resolved(OpValue(i))
    /\ \E i \in Requests : Cancelled(i)

(* Requests are waiting, no loop is active and a slot is free. *)
Dispatchable == queue # <<>> /\ ~isProcessing /\ activeRequests < maxConcurrent

(* C27: with the ceiling left alone once requests are submitted, whenever
   requests are waiting with no loop active and a slot free, a dispatch
   attempt scheduled by a completion is still to run. *)
C27_NoLostWakeUp == Dispatchable => timers > 0

(* A completion freed a slot while a request was waiting and no loop was
   active: its wake-up is pending. *)
C27_Witness ==
    /\ Dispatchable
    /\ maxConcurrent = DefaultMaxConcurrent
    /\ last.h = "complete"
    /\ timers > 0

(* Nothing pending, nothing in flight, no loop active. *)
Quiescent ==
    /\ GetStatus.queueLength = 0
    /\ GetStatus.activeRequests = 0
    /\ ~GetStatus.isProcessing

(* C28: with a constant ceiling of at least 1, delays that elapse and
   operations that settle, every submitted request is eventually dispatched
   or cancelled, and the scheduler ends up, and stays, with nothing
   pending, nothing in flight and no loop active once no more requests are
   submitted.  A request that has been dispatched or cancelled stays so,
   which makes "each request eventually" and "eventually all requests"
   the same statement for the requests of a run. *)
C28_Liveness ==
    /\ <>[](maxConcurrent >= 1 =>
              \A i \in 1..submitted : Dispatched(i) \/ Cancelled(i))
    /\ <>[](maxConcurrent >= 1 => Quiescent)

(* Under a ceiling of 1 every request was submitted and has been dispatched
   and settled in turn, the last wake-up has run, and the scheduler is at
   rest. *)
C28_Witness ==
    /\ maxConcurrent = 1
    /\ submitted >= 4
    /\ \A i \in 1..submitted : SettledByOperation(i)
    /\ Quiescent
    /\ timers = 0
    /\ last.h = "timer"

(* C29, as stated: once updateSettings has left the ceiling above the
   in-flight count while requests are pending, each of them is eventually
   dispatched (or cancelled, or the free capacity is taken away again),
   with no submit needed. *)
C29_Original ==
    \A i \in Requests :
        (/\ last.h = "updateSettings"
         /\ promise[i] = Pending /\ ~Dispatched(i)
         /\ activeRequests < maxConcurrent)
            ~> (Dispatched(i) \/ Cancelled(i)
                  \/ activeRequests >= maxConcurrent)

====
